---- MODULE Spec2Model ----
(***************************************************************************)
(* Model of emc2101_conf.py: the Emc2101 driver over an SMBus transport.   *)
(* The chip is a bank of 8-bit registers; every property access is a       *)
(* sequence of single-byte bus transactions, each of which may fail.       *)
(***************************************************************************)
EXTENDS Integers, Sequences, FiniteSets

VARIABLES
    regs,     \* the chip's registers: address -> byte
    last,     \* the operation that ran last: its name, argument, the registers
              \* before it, the bus transactions it issued, its error and result
    prev,     \* the operation before that one (name, argument, error, config byte before it)
    nops,     \* number of operations run so far
    callers   \* concurrent callers of _writeBool: position, arguments, local `reg`

vars == <<regs, last, prev, nops, callers>>

(***************************** bounds ***************************************)
MaxOps == 2
MaxFaultyOps == 1
MaxPairs == 9

(***************************** class constants ******************************)
MAX_LUT_SPEED == \h3F
MAX_LUT_TEMP == \h7F

CONFIG_MASK == \h80
CONFIG_STANDBY == \h40
CONFIG_FAN_STANDBY == \h20
CONFIG_DAC == \h10
CONFIG_DIS_TO == \h08
CONFIG_ALT_TACH == \h04
CONFIG_TCRIT_OVR == \h02
CONFIG_QUEUE == \h01

ConfigFlags ==
    {CONFIG_MASK, CONFIG_STANDBY, CONFIG_FAN_STANDBY, CONFIG_DAC,
     CONFIG_DIS_TO, CONFIG_ALT_TACH, CONFIG_TCRIT_OVR, CONFIG_QUEUE}

INTERNAL_TEMP == \h00
REG_CONFIG == \h03
LUT_HYSTERESIS == \h4F
LUT_BASE == \h50

\* Python's range(start, stop, step) for step > 0, as a 1-based sequence.
range(start, stop, step) ==
    [k \in 1..(IF stop > start THEN (stop - start + step - 1) \div step ELSE 0)
        |-> start + (k - 1) * step]

\* The two address tables, and variants of them with a wrong bound.
REG_LOOKUP_T_wide == range(\h50, \h61, 2)
REG_LOOKUP_T == range(\h50, \h5F, 2)

REG_LOOKUP_S_shifted == range(\h52, \h5F + 1, 2)
REG_LOOKUP_S == range(\h51, \h5F + 1, 2)

(***************************** the chip *************************************)
Byte == 0..255

\* The registers the model keeps: the ones the driver's properties address,
\* and the two neighbours of the lookup-table block.
Addrs == {INTERNAL_TEMP, REG_CONFIG} \cup (LUT_HYSTERESIS..(\h5F + 1))

LutAddrs == LUT_BASE..\h5F

(***************************** integer bit operations ***********************)
\* Python's &, | and ~ on unbounded two's-complement integers.
RECURSIVE BitAnd(_, _)
BitAnd(a, b) ==
    IF a = 0 \/ b = 0 THEN 0
    ELSE IF a = -1 THEN b
    ELSE IF b = -1 THEN a
    ELSE (a % 2) * (b % 2) + 2 * BitAnd(a \div 2, b \div 2)

BitNot(a) == -a - 1

BitOr(a, b) == BitNot(BitAnd(BitNot(a), BitNot(b)))

(***************************** the transport ********************************)
\* A bus session threads the registers through one operation.  failAt is the
\* number of the transaction (counted from 1 within the operation) on which
\* the transport raises; 0 means it never does.  A raised error stops the
\* operation: Python propagates the exception, nothing catches it.
Session(failAt) ==
    [regs |-> regs, log |-> <<>>, failAt |-> failAt, err |-> "none", ret |-> 0]

Tx(kind, addr, data, ok) == [kind |-> kind, addr |-> addr, data |-> data, ok |-> ok]

\* SMBus.read_byte_data: one transaction; returns the register's byte or raises.
read_byte_data(b, register_address) ==
    IF Len(b.log) + 1 = b.failAt
    THEN [b EXCEPT !.log = Append(@, Tx("read", register_address, 0, FALSE)),
                   !.err = "TransportError"]
    ELSE [b EXCEPT !.log = Append(@, Tx("read", register_address, b.regs[register_address], TRUE)),
                   !.ret = b.regs[register_address]]

\* SMBus.write_byte_data: one transaction; the data byte is 8 bits wide on the
\* wire.  A transaction that raises leaves the register as it was.
\* (the variant: a write that raises has reached the register all the same)
write_byte_data_sticky(b, register_address, data_byte) ==
    [b EXCEPT !.log = Append(@, Tx("write", register_address, data_byte % 256,
                                   Len(b.log) + 1 # b.failAt)),
              !.regs = [@ EXCEPT ![register_address] = data_byte % 256],
              !.err = IF Len(b.log) + 1 = b.failAt THEN "TransportError" ELSE @]

write_byte_data(b, register_address, data_byte) ==
    IF Len(b.log) + 1 = b.failAt
    THEN [b EXCEPT !.log = Append(@, Tx("write", register_address, data_byte % 256, FALSE)),
                   !.err = "TransportError"]
    ELSE [b EXCEPT !.log = Append(@, Tx("write", register_address, data_byte % 256, TRUE)),
                   !.regs = [@ EXCEPT ![register_address] = data_byte % 256]]

(***************************** register access layer ************************)
\* A _read that asks the bus once more when the transaction raised.
_read_retry(b, register_address) ==
    LET b1 == read_byte_data(b, register_address) IN
    IF b1.err = "none" THEN b1
    ELSE read_byte_data([b1 EXCEPT !.err = "none"], register_address)

_read(b, register_address) == read_byte_data(b, register_address)

_write(b, register_address, data_byte) == write_byte_data(b, register_address, data_byte)

\* Variants of the byte written back: the mask alone when enabling; the
\* flag toggled whatever `value` is.
WriteBoolData_maskonly(reg, registermask, value) ==
    IF value THEN registermask ELSE BitAnd(reg, BitNot(registermask))

WriteBoolData_xor(reg, registermask, value) ==
    IF BitAnd(reg, registermask) # 0
    THEN BitAnd(reg, BitNot(registermask))
    ELSE BitOr(reg, registermask)

\* The byte _writeBool writes back for the byte `reg` it read.
WriteBoolData(reg, registermask, value) ==
    IF value THEN BitOr(reg, registermask) ELSE BitAnd(reg, BitNot(registermask))

_writeBool(b, register_address, registermask, value) ==
    LET b1 == _read(b, register_address) IN
    IF b1.err # "none" THEN b1
    ELSE _write(b1, register_address, WriteBoolData(b1.ret, registermask, value))

(***************************** domain properties ****************************)
\* Each returns [bus |-> the session afterwards, val |-> the value returned];
\* val is meaningful only when bus.err = "none".
internalTemp(b) ==
    LET b1 == _read(b, INTERNAL_TEMP) IN [bus |-> b1, val |-> b1.ret]

dacMode_get(b) ==
    LET b1 == _read(b, REG_CONFIG) IN
    [bus |-> b1, val |-> (BitAnd(b1.ret, CONFIG_DAC) # 0)]

dacMode_set(b, value) ==
    [bus |-> _writeBool(b, REG_CONFIG, CONFIG_DAC, value), val |-> <<>>]

\* The list comprehension of the getter, element i onwards (i counts from 0);
\* a tuple's elements are evaluated left to right.
RECURSIVE LookupTableRead(_, _, _)
LookupTableRead(b, i, acc) ==
    IF i = 8 THEN [bus |-> b, val |-> acc]
    ELSE IF ~(i < Len(REG_LOOKUP_T)) THEN [bus |-> [b EXCEPT !.err = "IndexError"], val |-> <<>>]
    ELSE LET b1 == _read(b, REG_LOOKUP_T[i + 1]) IN
         IF b1.err # "none" THEN [bus |-> b1, val |-> <<>>]
         ELSE LET b2 == _read(b1, REG_LOOKUP_T[i + 1]) IN
              IF b2.err # "none" THEN [bus |-> b2, val |-> <<>>]
              ELSE LookupTableRead(b2, i + 1, Append(acc, <<b1.ret, b2.ret>>))

fanControlLookupTable_get(b) == LookupTableRead(b, 0, <<>>)

\* The loop of the setter, iteration i onwards (i counts from 0).
RECURSIVE LookupTableWrite(_, _, _)
LookupTableWrite(b, value, i) ==
    IF i = Len(value) THEN b
    ELSE IF ~(i < Len(REG_LOOKUP_T)) THEN [b EXCEPT !.err = "IndexError"]
    ELSE LET b1 == _write(b, REG_LOOKUP_T[i + 1], value[i + 1][1]) IN
         IF b1.err # "none" THEN b1
         ELSE IF ~(i < Len(REG_LOOKUP_S)) THEN [b1 EXCEPT !.err = "IndexError"]
         ELSE LET b2 == _write(b1, REG_LOOKUP_S[i + 1], value[i + 1][2]) IN
              IF b2.err # "none" THEN b2
              ELSE LookupTableWrite(b2, value, i + 1)

fanControlLookupTable_set(b, value) ==
    [bus |-> LookupTableWrite(b, value, 0), val |-> <<>>]

(***************************** inputs ***************************************)
\* The lookup table of the end-to-end scenario, continued past 8 pairs.
ExampleTable ==
    [i \in 1..MaxPairs |->
        CASE i = 1 -> <<20, 10>> [] i = 2 -> <<30, 20>> [] i = 3 -> <<40, 30>>
          [] i = 4 -> <<50, 40>> [] i = 5 -> <<60, 50>> [] i = 6 -> <<70, 60>>
          [] i = 7 -> <<75, 63>> [] OTHER -> <<80, 63>>]

\* A ramp that crosses both limits: temperatures 0x79.., speeds 0x3D..
RampTable == [i \in 1..MaxPairs |-> <<MAX_LUT_TEMP - 7 + i, MAX_LUT_SPEED - 3 + i>>]

\* The tables a caller assigns: every prefix of the two above.
Tables == {SubSeq(m, 1, k) : m \in {ExampleTable, RampTable}, k \in 0..MaxPairs}

\* Register contents at start.  The lookup-table block holds either sixteen
\* distinct in-range bytes or the limits themselves.
LutImages ==
    {[a \in LutAddrs |-> a - LUT_BASE + 1],
     [a \in LutAddrs |-> IF (a - LUT_BASE) % 2 = 0 THEN MAX_LUT_TEMP ELSE MAX_LUT_SPEED]}

ConfigSamples == {\h00, \h5A}

Image(temp, config, lut) ==
    [a \in Addrs |->
        IF a = INTERNAL_TEMP THEN temp
        ELSE IF a = REG_CONFIG THEN config
        ELSE IF a \in LutAddrs THEN lut[a]
        ELSE 0]

NoOp == [op |-> "none", arg |-> <<>>, pre |-> Image(0, 0, [a \in LutAddrs |-> 0]),
         log |-> <<>>, err |-> "none", ret |-> <<>>]

Brief(o) == [op |-> o.op, arg |-> o.arg, err |-> o.err, cfg |-> o.pre[REG_CONFIG]]

Callers == {"A", "B"}

Idle == [pc |-> "idle", mask |-> 0, value |-> FALSE, reg |-> 0, interleaved |-> FALSE]

(***************************** sequential operations ************************)
\* One public operation, run to completion (or to the exception it raises).
Run(op, arg, r) ==
    /\ nops < MaxOps
    /\ regs' = r.bus.regs
    /\ last' = [op |-> op, arg |-> arg, pre |-> regs, log |-> r.bus.log,
                err |-> r.bus.err, ret |-> IF r.bus.err = "none" THEN r.val ELSE <<>>]
    /\ prev' = Brief(last)
    /\ nops' = nops + 1
    /\ UNCHANGED callers

GetInternalTemp(failAt) == Run("internalTemp", <<>>, internalTemp(Session(failAt)))

GetDacMode(failAt) == Run("dacMode.get", <<>>, dacMode_get(Session(failAt)))

SetDacMode(value, failAt) == Run("dacMode.set", value, dacMode_set(Session(failAt), value))

GetFanControlLookupTable(failAt) ==
    Run("fanControlLookupTable.get", <<>>, fanControlLookupTable_get(Session(failAt)))

SetFanControlLookupTable(value, failAt) ==
    Run("fanControlLookupTable.set", value, fanControlLookupTable_set(Session(failAt), value))

\* _writeBool on the configuration register with any one flag's mask.
WriteBoolConfig(mask, value, failAt) ==
    Run("_writeBool", <<mask, value>>,
        [bus |-> _writeBool(Session(failAt), REG_CONFIG, mask, value), val |-> <<>>])

(***************************** the driver, one caller ***********************)
Init ==
    /\ regs \in {Image(25, c, l) : c \in ConfigSamples, l \in LutImages}
    /\ last = NoOp
    /\ prev = Brief(NoOp)
    /\ nops = 0
    /\ callers = [c \in Callers |-> Idle]

\* The transport never fails: sequences of public operations.
Next ==
    \/ GetInternalTemp(0)
    \/ GetDacMode(0)
    \/ \E v \in BOOLEAN : SetDacMode(v, 0)
    \/ GetFanControlLookupTable(0)
    \/ \E t \in Tables : SetFanControlLookupTable(t, 0)

Spec == Init /\ [][Next]_vars

(***************************** the driver, transport failures ***************)
\* Any one transaction of an operation may raise (failAt = 0: none does).
FaultyBudget == nops < MaxFaultyOps

NextFaulty ==
    \/ \E f \in 0..1 : FaultyBudget /\ GetInternalTemp(f)
    \/ \E f \in 0..1 : FaultyBudget /\ GetDacMode(f)
    \/ \E v \in BOOLEAN, f \in 0..2 : FaultyBudget /\ SetDacMode(v, f)
    \/ \E f \in 0..16 : FaultyBudget /\ GetFanControlLookupTable(f)
    \/ \E k \in 0..MaxPairs : \E f \in 0..(2 * k) :
           FaultyBudget /\ SetFanControlLookupTable(SubSeq(ExampleTable, 1, k), f)

SpecFaulty == Init /\ [][NextFaulty]_vars

(***************************** the configuration byte ***********************)
\* Every configuration byte, a reliable transport, the flag operations only.
InitConfig ==
    /\ regs \in {Image(25, c, [a \in LutAddrs |-> a - LUT_BASE + 1]) : c \in Byte}
    /\ last = NoOp
    /\ prev = Brief(NoOp)
    /\ nops = 0
    /\ callers = [c \in Callers |-> Idle]

NextConfig ==
    \/ GetDacMode(0)
    \/ \E v \in BOOLEAN : SetDacMode(v, 0)
    \/ \E m \in ConfigFlags, v \in BOOLEAN : WriteBoolConfig(m, v, 0)

SpecConfig == InitConfig /\ [][NextConfig]_vars

(***************************** two callers **********************************)
\* Two unserialized callers of _writeBool on the configuration register, each
\* changing a different flag; a step is one bus transaction.
Call(c, mask, value) ==
    /\ callers[c].pc = "idle"
    /\ \A d \in Callers \ {c} : callers[d].mask # mask
    /\ callers' = [callers EXCEPT ![c] = [@ EXCEPT !.pc = "read", !.mask = mask, !.value = value]]
    /\ UNCHANGED <<regs, last, prev, nops>>

\* A step of caller c falls between the read and the write of every caller
\* that has read and not yet written.
Interleave(cs, c) ==
    [d \in Callers |-> IF d # c /\ cs[d].pc = "write"
                       THEN [cs[d] EXCEPT !.interleaved = TRUE] ELSE cs[d]]

\* reg = self._read(register_address)
ReadStep(c) ==
    /\ callers[c].pc = "read"
    /\ LET b == _read(Session(0), REG_CONFIG) IN
       callers' = Interleave([callers EXCEPT ![c] = [@ EXCEPT !.pc = "write", !.reg = b.ret]], c)
    /\ UNCHANGED <<regs, last, prev, nops>>

\* self._write(register_address, reg | registermask) or (..., reg & ~registermask)
WriteStep(c) ==
    /\ callers[c].pc = "write"
    /\ LET b == _write(Session(0), REG_CONFIG,
                       WriteBoolData(callers[c].reg, callers[c].mask, callers[c].value)) IN
       regs' = b.regs
    /\ callers' = Interleave([callers EXCEPT ![c] = [@ EXCEPT !.pc = "done"]], c)
    /\ UNCHANGED <<last, prev, nops>>

InitConc ==
    /\ regs \in {Image(25, c, [a \in LutAddrs |-> a - LUT_BASE + 1]) : c \in ConfigSamples \cup {\hFF, \hA5}}
    /\ last = NoOp
    /\ prev = Brief(NoOp)
    /\ nops = 0
    /\ callers = [c \in Callers |-> Idle]

NextConc ==
    \/ \E c \in Callers, m \in ConfigFlags, v \in BOOLEAN : Call(c, m, v)
    \/ \E c \in Callers : ReadStep(c)
    \/ \E c \in Callers : WriteStep(c)

SpecConc == InitConc /\ [][NextConc]_vars

(***************************** properties ***********************************)
\* The register map of the lookup table: slot i (from 0) keeps its temperature
\* at 0x50 + 2i and its speed at 0x51 + 2i.
TempAddr(i) == 80 + 2 * i
SpeedAddr(i) == 81 + 2 * i

\* Bit m (a power of two) of byte x, and x with that bit taken out.
Bit(x, m) == (x \div m) % 2
Without(x, m) == x - m * Bit(x, m)

IsOp(name) == last.op = name
Succeeded == last.err = "none"
Writes == {n \in 1..Len(last.log) : last.log[n].kind = "write"}
InLimits(t) == \A i \in 1..Len(t) : t[i][1] <= 127 /\ t[i][2] <= 63

\* C1: a table of exactly 8 in-limit pairs assigned through the setter is
\* what the getter returns right afterwards, pair for pair, in order.
C1_RoundTrip ==
    (/\ IsOp("fanControlLookupTable.get") /\ Succeeded
     /\ prev.op = "fanControlLookupTable.set" /\ prev.err = "none"
     /\ Len(prev.arg) = 8 /\ InLimits(prev.arg))
    => last.ret = prev.arg

\* C5: the getter returns 8 pairs, pair i being (temperature register of
\* slot i, speed register of slot i) as they stood when it was called.
C5_ReadMapping ==
    (IsOp("fanControlLookupTable.get") /\ Succeeded)
    => /\ Len(last.ret) = 8
       /\ \A i \in 0..7 :
             last.ret[i + 1] = <<last.pre[TempAddr(i)], last.pre[SpeedAddr(i)]>>

\* C6: every temperature register of the table stays <= 0x7F and every speed
\* register <= 0x3F, whatever pairs the setter is given.
C6_LutBounds ==
    \A i \in 0..7 : regs[TempAddr(i)] <= 127 /\ regs[SpeedAddr(i)] <= 63

\* C4: a setter call with k < 8 pairs leaves slots 0..k-1 holding the pairs
\* supplied and every register of slots k..7 as it was before the call.
C4_PartialWrite ==
    (IsOp("fanControlLookupTable.set") /\ Succeeded /\ Len(last.arg) < 8)
    => /\ \A i \in 0..(Len(last.arg) - 1) :
             /\ regs[TempAddr(i)] = last.arg[i + 1][1]
             /\ regs[SpeedAddr(i)] = last.arg[i + 1][2]
       /\ \A a \in TempAddr(Len(last.arg))..95 : regs[a] = last.pre[a]

\* A 3-pair write that changed the first slots over stale, non-zero later ones.
C4_Witness ==
    /\ IsOp("fanControlLookupTable.set") /\ Succeeded /\ Len(last.arg) = 3
    /\ regs[TempAddr(0)] # last.pre[TempAddr(0)]
    /\ regs[SpeedAddr(2)] # last.pre[SpeedAddr(2)]
    /\ \A a \in TempAddr(3)..95 : regs[a] # 0 /\ regs[a] = last.pre[a]

\* C2: after dacMode = v the configuration register has bit 0x10 equal to v
\* and its other seven bits as they were before the call.
C2_DacModeFrame ==
    (IsOp("dacMode.set") /\ Succeeded)
    => /\ Bit(regs[3], 16) = (IF last.arg THEN 1 ELSE 0)
       /\ Without(regs[3], 16) = Without(last.pre[3], 16)

\* DAC mode enabled over a byte that had other flags set and this one clear.
C2_Witness ==
    /\ IsOp("dacMode.set") /\ Succeeded /\ last.arg = TRUE
    /\ last.pre[3] = 165 /\ regs[3] = 181

\* The flag F was set to true and then to false, nothing in between.
SetThenCleared(F) ==
    \/ /\ IsOp("_writeBool") /\ Succeeded /\ last.arg = <<F, FALSE>>
       /\ prev.op = "_writeBool" /\ prev.err = "none" /\ prev.arg = <<F, TRUE>>
    \/ /\ F = CONFIG_DAC
       /\ IsOp("dacMode.set") /\ Succeeded /\ last.arg = FALSE
       /\ prev.op = "dacMode.set" /\ prev.err = "none" /\ prev.arg = TRUE

\* C3 as stated: setting a flag and then clearing it restores the
\* configuration byte it started from.
C3_Original ==
    \A F \in ConfigFlags : SetThenCleared(F) => regs[3] = prev.cfg

\* C3, amended: setting a flag and then clearing it leaves the flag clear and
\* the other seven bits as they started; the byte is the one it started from
\* exactly when the flag was clear at the start.
C3_RoundTrip ==
    \A F \in ConfigFlags :
        SetThenCleared(F)
        => /\ regs[3] = Without(prev.cfg, F)
           /\ (regs[3] = prev.cfg) <=> (Bit(prev.cfg, F) = 0)

\* DAC mode turned on and off again over a byte that had it on.
C3_Witness ==
    /\ SetThenCleared(CONFIG_DAC) /\ IsOp("dacMode.set")
    /\ prev.cfg = 255 /\ regs[3] = 239

\* The transactions of the last operation that completed.
Completed == {n \in 1..Len(last.log) : last.log[n].ok}

\* C8: a transport failure ends the operation and reaches the caller: the
\* failed transaction is the operation's last one and is not repeated, an
\* operation without one reports no error, a register read or written on its
\* own costs exactly one transaction, and a dacMode assignment whose read
\* fails issues no write and leaves the configuration register as it was.
C8_FailurePropagates ==
    /\ last.err = "TransportError"
       => /\ Len(last.log) >= 1
          /\ Completed = 1..(Len(last.log) - 1)
    /\ last.err # "TransportError" => Completed = 1..Len(last.log)
    /\ IsOp("internalTemp")
       => Len(last.log) = 1 /\ last.log[1].kind = "read" /\ last.log[1].addr = 0
    /\ IsOp("dacMode.get")
       => Len(last.log) = 1 /\ last.log[1].kind = "read" /\ last.log[1].addr = 3
    /\ IsOp("dacMode.set")
       => /\ last.log[1].kind = "read" /\ last.log[1].addr = 3
          /\ ~last.log[1].ok
             => last.err = "TransportError" /\ Len(last.log) = 1 /\ regs = last.pre
          /\ last.log[1].ok
             => Len(last.log) = 2 /\ last.log[2].kind = "write" /\ last.log[2].addr = 3
          /\ last.err = "TransportError" => regs = last.pre

\* dacMode = True over a byte with the flag clear, the read failing.
C8_Witness ==
    /\ IsOp("dacMode.set") /\ last.arg = TRUE /\ last.err = "TransportError"
    /\ Len(last.log) = 1 /\ ~last.log[1].ok
    /\ Bit(regs[3], 16) = 0

\* C9: the setter writes register 0x50, then 0x51, ... in address order, the
\* temperature of each pair before its speed; when its j-th write fails, the
\* first j-1 registers hold the data written and every other register is as
\* it was before the call.
C9_WriteOrder ==
    IsOp("fanControlLookupTable.set")
    => /\ \A n \in 1..Len(last.log) :
             /\ last.log[n].kind = "write"
             /\ last.log[n].addr = 80 + (n - 1)
             /\ last.log[n].data = last.arg[((n - 1) \div 2) + 1][((n - 1) % 2) + 1]
       /\ last.err = "TransportError"
          => /\ Completed = 1..(Len(last.log) - 1)
             /\ \A a \in DOMAIN regs :
                   regs[a] = IF a \in 80..(80 + Len(last.log) - 2)
                             THEN last.log[a - 80 + 1].data
                             ELSE last.pre[a]

\* The 4th write (the speed of slot 1) failed: slot 1 has its new temperature
\* and its old speed.
C9_Witness ==
    /\ IsOp("fanControlLookupTable.set") /\ last.err = "TransportError"
    /\ Len(last.log) = 4
    /\ regs[TempAddr(1)] = last.arg[2][1] /\ regs[TempAddr(1)] # last.pre[TempAddr(1)]
    /\ regs[SpeedAddr(1)] = last.pre[SpeedAddr(1)] /\ regs[SpeedAddr(1)] # last.arg[2][2]

\* C10: the getters write nothing; the dacMode setter writes address 0x03
\* only; the table setter writes addresses 0x50..0x5F only, and given more
\* than 8 pairs it writes the first 8 and fails on the 9th without a write.
C10_WriteConfinement ==
    /\ (IsOp("internalTemp") \/ IsOp("dacMode.get") \/ IsOp("fanControlLookupTable.get"))
       => Writes = {} /\ regs = last.pre
    /\ IsOp("dacMode.set")
       => /\ \A n \in Writes : last.log[n].addr = 3
          /\ \A a \in DOMAIN regs \ {3} : regs[a] = last.pre[a]
    /\ IsOp("fanControlLookupTable.set")
       => /\ \A n \in Writes : last.log[n].addr \in 80..95
          /\ \A a \in DOMAIN regs \ (80..95) : regs[a] = last.pre[a]
          /\ (Len(last.arg) > 8 /\ last.err # "TransportError")
             => /\ last.err = "IndexError"
                /\ Len(last.log) = 16
                /\ \A i \in 0..7 : /\ regs[TempAddr(i)] = last.arg[i + 1][1]
                                   /\ regs[SpeedAddr(i)] = last.arg[i + 1][2]

\* Nine pairs given: sixteen writes, then the IndexError.
C10_Witness ==
    /\ IsOp("fanControlLookupTable.set") /\ Len(last.arg) = 9
    /\ last.err = "IndexError" /\ Len(last.log) = 16 /\ Writes = 1..16
    /\ regs # last.pre

\* Both callers have written.
AllDone == \A c \in Callers : callers[c].pc = "done"

\* Caller c's change is in the register.
Present(c) == Bit(regs[3], callers[c].mask) = (IF callers[c].value THEN 1 ELSE 0)

\* C7: when both callers are done and a change is missing from the register,
\* a transaction of the other caller fell between some caller's read and
\* write; callers that ran one after the other both find their change there.
C7_LostOnlyWhenInterleaved ==
    (AllDone /\ \E c \in Callers : ~Present(c))
    => \E c \in Callers : callers[c].interleaved

\* Caller A's change was overwritten by B's stale byte.
C7_Witness ==
    /\ AllDone
    /\ ~Present("A") /\ Present("B")
    /\ callers["B"].interleaved
    /\ regs[3] = WriteBoolData(callers["B"].reg, callers["B"].mask, callers["B"].value)

====
